---- MODULE Spec2Model ----
(***************************************************************************)
(* Model of packages/just-task/src/profiler.ts: the Profiler class that    *)
(* records start/stop events of tasks in a JavaScript array indexed by     *)
(* task id and writes them out as a chrome trace file.                     *)
(*                                                                         *)
(* JavaScript values are represented as follows.                           *)
(*   - an hrtime tuple [seconds, nanoseconds] is a pair <<s, ns>>;         *)
(*   - a number of microseconds (the result of hrtimeToMicroSeconds, which *)
(*     is fractional) is a record [us |-> whole, frac |-> thousandths];    *)
(*   - a Date is a record [time |-> ms since the epoch];                   *)
(*   - an array is a record [length |-> n, items |-> f] where DOMAIN f is  *)
(*     the set of indices (0-based) that hold an element: an index below   *)
(*     length that is not in DOMAIN f is an empty slot;                    *)
(*   - an object is a record; an optional field that was never assigned    *)
(*     is not in its DOMAIN.                                               *)
(***************************************************************************)
EXTENDS Integers, Sequences, FiniteSets, TLC

VARIABLES
    startTime,     \* Profiler.startTime: Date
    outputFolder,  \* Profiler.outputFolder: string
    endTime,       \* Profiler.endTime: Date | undefined
    entries,       \* Profiler.entries: ProfileEntry[] (sparse array)
    fs,            \* output files on disk: path -> JSON document
    hr,            \* process.hrtime(): the monotonic clock, <<s, ns>>
    wall,          \* the wall clock read by new Date(), ms since the epoch
    ticks,         \* number of clock advances so far
    calls,         \* number of calls made on the profiler so far
    history,       \* per id, the calls on it that were accepted, in order
    last           \* the most recent call on the profiler and its outcome

vars == <<startTime, outputFolder, endTime, entries, fs, hr, wall, ticks,
          calls, history, last>>

-----------------------------------------------------------------------------
(* Bounds of the model *)

MaxId == 1
MaxTicks == 1
MaxCalls == 5

Ids == 0..MaxId
Names == {"build"}

(* Program and platform constants *)

NanosPerSecond == 1000000000
Pid == 4242
InitialHr == <<1, 999999000>>
InitialWall == 3599999
Steps == {[s |-> 0, ns |-> 1500, ms |-> 1]}
Cwd == "/repo"
ErrorMessage == "Error: Usage of '--profile' encountered an unexpected state."

-----------------------------------------------------------------------------
(* JavaScript values *)

Undefined == "<undefined>"
Folders == {Undefined}
UndefinedDate == [undefined |-> TRUE]
Null == [null |-> TRUE]
NoError == [name |-> "<none>", message |-> ""]

Date(ms) == [time |-> ms]

EmptyArray == [length |-> 0, items |-> <<>>]

\* arr[i]: undefined for an empty slot or an index past the end
HasItem(arr, i) == i \in DOMAIN arr.items

\* arr[i] = v: grows length to i + 1 when i is past the end, leaving the
\* indices in between empty
ArraySet(arr, i, v) ==
    [length |-> IF i >= arr.length THEN i + 1 ELSE arr.length,
     items  |-> [k \in DOMAIN arr.items \cup {i} |->
                    IF k = i THEN v ELSE arr.items[k]]]

-----------------------------------------------------------------------------
(* Time *)

\* hrtimeToMicroSeconds: (hrtime[0] * 1e9 + hrtime[1]) / 1000, kept exact
\* as whole microseconds plus thousandths
hrtimeToMicroSeconds(hrtime) ==
    [us   |-> hrtime[1] * (NanosPerSecond \div 1000) + (hrtime[2] \div 1000),
     frac |-> hrtime[2] % 1000]

\* process.hrtime(time): the clock relative to an earlier reading
hrtimeSince(now, time) ==
    LET sec  == now[1] - time[1]
        nsec == now[2] - time[2]
    IN  IF nsec < 0 THEN <<sec - 1, nsec + NanosPerSecond>> ELSE <<sec, nsec>>

Pad2(n) == IF n < 10 THEN "0" \o ToString(n) ELSE ToString(n)
Pad3(n) == IF n < 10 THEN "00" \o ToString(n)
           ELSE IF n < 100 THEN "0" \o ToString(n) ELSE ToString(n)

\* Date.prototype.toJSON, for a date of the first day of the epoch, as the
\* sequence of its parts: digits and separators
DateParts(d) ==
    LET ms == d.time
    IN  <<"1970", "-", "01", "-", "01", "T",
          Pad2(ms \div 3600000), ":",
          Pad2((ms \div 60000) % 60), ":",
          Pad2((ms \div 1000) % 60), ".",
          Pad3(ms % 1000), "Z">>

RECURSIVE Concat(_)
Concat(parts) ==
    IF parts = <<>> THEN "" ELSE Head(parts) \o Concat(Tail(parts))

toJSON(d) == Concat(DateParts(d))

\* toJSON().replace(/-|:|/g, ''): every "-" and ":" removed
StripSeparators(parts) ==
    Concat(SelectSeq(parts, LAMBDA p : p \notin {"-", ":"}))

PathJoin(dir, file) == dir \o "/" \o file

-----------------------------------------------------------------------------
(* The manifest <cwd>/package.json, an input of start *)

ManifestTexts == {"{\"name\":\"pkg\"}", "{}", "null", "{"}

Manifests ==
    {[exists |-> FALSE, readable |-> FALSE, text |-> ""],
     [exists |-> TRUE, readable |-> FALSE, text |-> ""]}
    \cup {[exists |-> TRUE, readable |-> TRUE, text |-> t] : t \in ManifestTexts}

\* JSON.parse on the manifest texts
JSONParse(text) ==
    CASE text = "{\"name\":\"pkg\"}" ->
            [threw |-> FALSE, isNull |-> FALSE, name |-> "pkg"]
      [] text = "{}" ->
            [threw |-> FALSE, isNull |-> FALSE, name |-> Undefined]
      [] text = "null" ->
            [threw |-> FALSE, isNull |-> TRUE, name |-> Undefined]
      [] OTHER ->
            [threw |-> TRUE, isNull |-> FALSE, name |-> Undefined]

\* lines 68-75 of start: the package name, or the error raised on the way
ReadPackageName(m) ==
    IF ~m.exists
    THEN [error |-> NoError, packageName |-> Undefined]
    ELSE IF ~m.readable
    THEN [error |-> [name |-> "Error", message |-> "EACCES: permission denied"],
          packageName |-> Undefined]
    ELSE LET packageJson == JSONParse(m.text)
         IN  IF packageJson.threw
             THEN [error |-> [name |-> "SyntaxError",
                             message |-> "Unexpected end of JSON input"],
                   packageName |-> Undefined]
             ELSE IF packageJson.isNull
             THEN [error |-> [name |-> "TypeError",
                             message |-> "Cannot read properties of null"],
                   packageName |-> Undefined]
             ELSE [error |-> NoError, packageName |-> packageJson.name]

-----------------------------------------------------------------------------
(* The errors of start and stop *)

DuplicateTaskError == [name |-> "Error", message |-> ErrorMessage]
UnknownTaskError == [name |-> "Error", message |-> ErrorMessage]

Call(op, id, error) ==
    [op |-> op, id |-> id, threw |-> error # NoError, error |-> error]

\* one more call is made on the profiler
Called == calls < MaxCalls /\ calls' = calls + 1

-----------------------------------------------------------------------------
(* Operations *)

Init ==
    /\ \E folder \in Folders :
          outputFolder = IF folder \in {Undefined, ""} THEN Cwd ELSE folder
    /\ wall = InitialWall
    /\ startTime = Date(wall)
    /\ endTime = UndefinedDate
    /\ entries = EmptyArray
    /\ fs = <<>>
    /\ hr = InitialHr
    /\ ticks = 0
    /\ calls = 0
    /\ history = [id \in Ids |-> <<>>]
    /\ last = Call("new", 0, NoError)

\* the ProfileEntry stored by start (lines 77-90)
NewEntry(id, name, hrStart, packageName) ==
    [name        |-> name,
     ph          |-> "X",
     ts          |-> hrtimeToMicroSeconds(hrStart),
     pid         |-> Pid,
     tid         |-> id,
     cwd         |-> Cwd,
     packageName |-> packageName,
     id          |-> id,
     state       |-> "running",
     startTime   |-> hrStart]

\* stop with the two clock readings exchanged in the elapsed time
StoppedEntryReversed(entry, success, now) ==
    [f \in DOMAIN entry \cup {"dur"} |->
        CASE f = "state" -> IF success THEN "succeeded" ELSE "failed"
          [] f = "dur"   -> hrtimeToMicroSeconds(hrtimeSince(entry.startTime, now))
          [] OTHER       -> entry[f]]

\* stop that sets the state and forgets the duration
StoppedEntryNoDur(entry, success, now) ==
    [entry EXCEPT !.state = IF success THEN "succeeded" ELSE "failed"]

\* stop that also restamps the start of the entry
StoppedEntryRestart(entry, success, now) ==
    [f \in DOMAIN entry \cup {"dur"} |->
        CASE f = "state"     -> IF success THEN "succeeded" ELSE "failed"
          [] f = "dur"       -> hrtimeToMicroSeconds(hrtimeSince(now, entry.startTime))
          [] f = "startTime" -> now
          [] f = "ts"        -> hrtimeToMicroSeconds(now)
          [] OTHER           -> entry[f]]

\* the entry after the two assignments of stop (lines 105-106)
StoppedEntry(entry, success, now) ==
    [f \in DOMAIN entry \cup {"dur"} |->
        CASE f = "state" -> IF success THEN "succeeded" ELSE "failed"
          [] f = "dur"   -> hrtimeToMicroSeconds(hrtimeSince(now, entry.startTime))
          [] OTHER       -> entry[f]]

\* JSON serialisation of an entry: a field whose value is undefined is
\* left out
EntryJSON(entry) ==
    [f \in DOMAIN entry \ (IF entry.packageName = Undefined
                             THEN {"packageName"} ELSE {}) |-> entry[f]]

\* JSON serialisation of the entries array: one element per index below
\* length, null for an empty slot
TraceEvents(arr) ==
    [i \in 1..arr.length |->
        IF HasItem(arr, i - 1) THEN EntryJSON(arr.items[i - 1]) ELSE Null]

\* the document handed to outputJsonSync (lines 117-125)
TraceData(arr, start, end) ==
    [traceEvents     |-> TraceEvents(arr),
     displayTimeUnit |-> "ms",
     otherData       |-> [source    |-> "just-tasks profiler",
                          startTime |-> toJSON(start),
                          endTime   |-> toJSON(end)]]

ProfileFileName(end) ==
    "just-tasks-Profile-" \o StripSeparators(DateParts(end)) \o ".json"

\* start without the check of lines 62-64
startUnchecked(id, name, manifest) ==
    /\ Called
    /\ LET hrStart == hr
           read    == ReadPackageName(manifest)
       IN  /\ entries' = IF read.error # NoError
                         THEN entries
                         ELSE ArraySet(entries, id,
                                  NewEntry(id, name, hrStart, read.packageName))
           /\ history' = IF read.error # NoError
                         THEN history
                         ELSE [history EXCEPT ![id] = Append(@, "start")]
           /\ last' = Call("start", id, read.error)
           /\ UNCHANGED <<startTime, outputFolder, endTime, fs, hr, wall, ticks>>

\* start that stores the entry before it reads the manifest
startStoreFirst(id, name, manifest) ==
    /\ Called
    /\ IF HasItem(entries, id)
       THEN /\ last' = Call("start", id, DuplicateTaskError)
            /\ UNCHANGED <<startTime, outputFolder, endTime, entries, fs, hr,
                           wall, ticks, history>>
       ELSE LET hrStart == hr
                read    == ReadPackageName(manifest)
            IN  /\ entries' = ArraySet(entries, id,
                                  NewEntry(id, name, hrStart, read.packageName))
                /\ history' = [history EXCEPT ![id] = Append(@, "start")]
                /\ last' = Call("start", id, read.error)
                /\ UNCHANGED <<startTime, outputFolder, endTime, fs, hr, wall,
                               ticks>>

start(id, name, manifest) ==
    /\ Called
    /\ IF HasItem(entries, id)
       THEN /\ last' = Call("start", id, DuplicateTaskError)
            /\ UNCHANGED <<startTime, outputFolder, endTime, entries, fs, hr,
                           wall, ticks, history>>
       ELSE LET hrStart == hr
                read    == ReadPackageName(manifest)
            IN  /\ entries' = IF read.error # NoError
                              THEN entries
                              ELSE ArraySet(entries, id,
                                       NewEntry(id, name, hrStart, read.packageName))
                /\ history' = IF read.error # NoError
                              THEN history
                              ELSE [history EXCEPT ![id] = Append(@, "start")]
                /\ last' = Call("start", id, read.error)
                /\ UNCHANGED <<startTime, outputFolder, endTime, fs, hr, wall,
                               ticks>>

stop(id, success) ==
    /\ Called
    /\ IF ~HasItem(entries, id)
       THEN /\ last' = Call("stop", id, UnknownTaskError)
            /\ UNCHANGED <<startTime, outputFolder, endTime, entries, fs, hr,
                           wall, ticks, history>>
       ELSE /\ entries' = [entries EXCEPT
                              !.items[id] = StoppedEntry(@, success, hr)]
            /\ history' = [history EXCEPT
                              ![id] = Append(@, IF success THEN "stop(true)"
                                                ELSE "stop(false)")]
            /\ last' = Call("stop", id, NoError)
            /\ UNCHANGED <<startTime, outputFolder, endTime, fs, hr, wall, ticks>>

\* write; the file system is taken to accept the file
write ==
    LET end      == Date(wall)
        fileName == ProfileFileName(end)
        file     == PathJoin(outputFolder, fileName)
    IN  /\ Called
        /\ endTime' = end
        /\ fs' = [p \in DOMAIN fs \cup {file} |->
                    IF p = file THEN TraceData(entries, startTime, end)
                    ELSE fs[p]]
        /\ last' = Call("write", 0, NoError)
        /\ UNCHANGED <<startTime, outputFolder, entries, hr, wall, ticks,
                       history>>

\* time passes: both clocks advance
Tick(step) ==
    /\ ticks < MaxTicks
    /\ ticks' = ticks + 1
    /\ hr' = LET nsec == hr[2] + step.ns
             IN  IF nsec >= NanosPerSecond
                 THEN <<hr[1] + step.s + 1, nsec - NanosPerSecond>>
                 ELSE <<hr[1] + step.s, nsec>>
    /\ wall' = wall + step.ms
    /\ UNCHANGED <<startTime, outputFolder, endTime, entries, fs, calls,
                   history, last>>

Next ==
    \/ \E id \in Ids, name \in Names, manifest \in Manifests :
            start(id, name, manifest)
    \/ \E id \in Ids, success \in BOOLEAN : stop(id, success)
    \/ write
    \/ \E step \in Steps : Tick(step)

Spec == Init /\ [][Next]_vars

TypeOK ==
    /\ entries.length \in 0..(MaxId + 1)
    /\ DOMAIN entries.items \subseteq 0..(entries.length - 1)
    /\ ticks \in 0..MaxTicks
    /\ calls \in 0..MaxCalls

-----------------------------------------------------------------------------
(* Vocabulary of the properties *)

\* the step is a call on the profiler (start, stop or write)
CallStep == calls' = calls + 1

\* the last call was a write
Wrote == last.op = "write"

\* the document put on disk by the most recent write
LastWritten == fs[PathJoin(outputFolder, ProfileFileName(endTime))]

\* the indices of a traceEvents array that hold an entry object
Objects(te) == {i \in DOMAIN te : te[i] # Null}

StartedAndStopped == {<<"start", "stop(true)">>, <<"start", "stop(false)">>}

-----------------------------------------------------------------------------
(* C1: when every id was either never started or started once and then    *)
(* stopped once, the traceEvents of a following write hold exactly one    *)
(* entry for each such id, with dur >= 0 and the state of the success     *)
(* flag given to stop, and none for an id never started.                  *)
C1_OneEntryPerId ==
    (Wrote /\ \A id \in Ids : history[id] \in {<<>>} \cup StartedAndStopped)
    => LET te == LastWritten.traceEvents
       IN  \A id \in Ids :
             LET hits == {i \in Objects(te) : te[i].id = id}
             IN  IF history[id] = <<>>
                 THEN hits = {}
                 ELSE /\ Cardinality(hits) = 1
                      /\ \A i \in hits :
                           /\ "dur" \in DOMAIN te[i]
                           /\ te[i].dur.us >= 0
                           /\ te[i].dur.frac \in 0..999
                           /\ te[i].state =
                                IF history[id][2] = "stop(true)"
                                THEN "succeeded" ELSE "failed"

\* two ids stopped with different flags, one of them after time has passed
C1_Witness ==
    /\ Wrote
    /\ \E a, b \in Ids :
         /\ history[a] = <<"start", "stop(true)">>
         /\ history[b] = <<"start", "stop(false)">>
         /\ entries.items[a].dur.us > 0
         /\ Cardinality(Objects(LastWritten.traceEvents)) = 2

(* C2: every element of a written traceEvents array is an entry object    *)
(* with name, ph = "X", ts, pid and tid; no element is null.              *)
C2_NoNullSlot ==
    \A p \in DOMAIN fs :
      LET te == fs[p].traceEvents
      IN  \A i \in DOMAIN te :
            /\ te[i] # Null
            /\ {"name", "ph", "ts", "pid", "tid"} \subseteq DOMAIN te[i]
            /\ te[i].ph = "X"

(* C3: when exactly one task has been started, whatever its id, the first *)
(* element of the written traceEvents is that task's entry, with its      *)
(* name, ph "X" and its state.                                            *)
C3_FirstElementIsTheTask ==
    (Wrote /\ Cardinality(DOMAIN entries.items) = 1)
    => LET te == LastWritten.traceEvents
       IN  \A id \in DOMAIN entries.items :
             /\ 1 \in Objects(te)
             /\ te[1].name = entries.items[id].name
             /\ te[1].ph = "X"
             /\ te[1].state = entries.items[id].state

(* C4: an entry, in the recorder or in a written file, has state          *)
(* "running" exactly when it has no dur field; a task started and not     *)
(* stopped when write runs is in the output, running and without dur.     *)
C4_RunningIffNoDur ==
    /\ \A id \in DOMAIN entries.items :
         (entries.items[id].state = "running")
           <=> ("dur" \notin DOMAIN entries.items[id])
    /\ \A p \in DOMAIN fs :
         \A i \in Objects(fs[p].traceEvents) :
           (fs[p].traceEvents[i].state = "running")
             <=> ("dur" \notin DOMAIN fs[p].traceEvents[i])
    /\ Wrote =>
         \A id \in Ids :
           history[id] = <<"start">> =>
             LET te == LastWritten.traceEvents
             IN  /\ (id + 1) \in Objects(te)
                 /\ te[id + 1].id = id
                 /\ te[id + 1].state = "running"
                 /\ "dur" \notin DOMAIN te[id + 1]

\* a write with one task still running and another one stopped
C4_Witness ==
    /\ Wrote
    /\ \E a, b \in Ids :
         /\ history[a] = <<"start">>
         /\ Len(history[b]) = 2
         /\ "dur" \in DOMAIN entries.items[b]
         /\ Cardinality(Objects(LastWritten.traceEvents)) = 2

(* C5: start on an id that has an entry throws the error of line 63 and   *)
(* changes no entry, whatever the state of the entry and whether or not   *)
(* write has run.                                                         *)
C5_DuplicateStartRejected ==
    [][(CallStep /\ last'.op = "start" /\ HasItem(entries, last'.id))
       => /\ last'.threw
          /\ last'.error = DuplicateTaskError
          /\ entries' = entries]_vars

\* a duplicate start on a stopped entry, after a write
C5_Witness ==
    /\ last.op = "start"
    /\ last.error = DuplicateTaskError
    /\ HasItem(entries, last.id)
    /\ entries.items[last.id].state = "failed"
    /\ endTime # UndefinedDate

(* C6: stop on an id without an entry throws an error distinct from the   *)
(* error of a duplicate start, creates no entry and changes no entry.     *)
C6_UnknownStopDistinctError ==
    [][(CallStep /\ last'.op = "stop" /\ ~HasItem(entries, last'.id))
       => /\ last'.threw
          /\ last'.error # DuplicateTaskError
          /\ entries' = entries]_vars

(* C7: an entry that is succeeded or failed is never changed again, and   *)
(* no later stop on its id is accepted.                                   *)
C7_StoppedEntryIsFinal ==
    [][\A id \in Ids :
         (HasItem(entries, id) /\ entries.items[id].state # "running")
         => /\ HasItem(entries', id)
            /\ entries'.items[id] = entries.items[id]
            /\ ~(CallStep /\ last'.op = "stop" /\ last'.id = id
                          /\ ~last'.threw)]_vars

(* C8: once write has stamped the end time, no call is accepted and       *)
(* neither the entries, the end time nor the files change.                *)
C8_FinalizedOnce ==
    [][endTime # UndefinedDate
       => /\ entries' = entries
          /\ endTime' = endTime
          /\ fs' = fs
          /\ CallStep => last'.threw]_vars

(* C9: an accepted stop changes only state and dur of its entry, an       *)
(* accepted start only adds the entry of its id, write changes no entry,  *)
(* and no step changes startTime or outputFolder.                         *)
C9_Frame ==
    [][/\ startTime' = startTime
       /\ outputFolder' = outputFolder
       /\ (CallStep /\ last'.op = "stop" /\ ~last'.threw)
          => /\ entries'.length = entries.length
             /\ DOMAIN entries'.items = DOMAIN entries.items
             /\ \A id \in DOMAIN entries.items \ {last'.id} :
                  entries'.items[id] = entries.items[id]
             /\ \A f \in DOMAIN entries.items[last'.id] \ {"state", "dur"} :
                  entries'.items[last'.id][f] = entries.items[last'.id][f]
             /\ DOMAIN entries'.items[last'.id]
                  = DOMAIN entries.items[last'.id] \cup {"dur"}
             /\ endTime' = endTime
       /\ (CallStep /\ last'.op = "start" /\ ~last'.threw)
          => /\ DOMAIN entries'.items = DOMAIN entries.items \cup {last'.id}
             /\ last'.id \notin DOMAIN entries.items
             /\ \A id \in DOMAIN entries.items :
                  entries'.items[id] = entries.items[id]
             /\ endTime' = endTime
       /\ (CallStep /\ last'.op = "write")
          => entries' = entries]_vars

\* a second entry stopped next to an untouched one, after a write
C9_Witness ==
    /\ last.op = "stop"
    /\ ~last.threw
    /\ \E other \in DOMAIN entries.items :
         other # last.id /\ entries.items[other].state = "running"
    /\ entries.items[last.id].dur.us > 0
    /\ endTime # UndefinedDate

(* C10: with the manifest absent, start stores a running entry without    *)
(* package name; with a manifest that cannot be read or parsed, start     *)
(* throws and leaves the recorder as it was, without an entry for id.     *)
C10_ManifestAllOrNothing ==
    [][(CallStep /\ last'.op = "start" /\ ~HasItem(entries, last'.id))
       => \A name \in Names, m \in Manifests :
            start(last'.id, name, m)
            => IF ~m.exists
               THEN /\ ~last'.threw
                    /\ HasItem(entries', last'.id)
                    /\ entries'.items[last'.id].state = "running"
                    /\ entries'.items[last'.id].packageName = Undefined
               ELSE (~m.readable \/ JSONParse(m.text).threw)
                    => /\ last'.threw
                       /\ entries' = entries
                       /\ ~HasItem(entries', last'.id)
                       /\ UNCHANGED <<startTime, outputFolder, endTime, fs>>]_vars

\* a start that failed on the manifest, next to an entry without package
\* name, and the same id started afterwards
C10_Witness ==
    /\ last.op = "start"
    /\ last.threw
    /\ last.error.name = "SyntaxError"
    /\ ~HasItem(entries, last.id)
    /\ \E other \in DOMAIN entries.items :
         entries.items[other].packageName = Undefined
====
